---- MODULE Spec2Model ----
(***************************************************************************)
(* Model of src/linters/php-security-checker.js: the PHPSecurityChecker    *)
(* adapter (verifySetup, lint, parseOutput) and the collaborators it       *)
(* calls (commandExists, run, core.warning, initLintResult, JSON.parse).   *)
(*                                                                         *)
(* Representation choices:                                                 *)
(*  - stdout is a sequence of JSON lexemes (whitespace already skipped);   *)
(*    JSONParse is a recursive-descent parser over that sequence.          *)
(*  - a decoded JavaScript value is a record [k, s, c]: k its kind,        *)
(*    s its string payload, c its children (array elements, or the         *)
(*    <<key, value>> entries of an object in own-property order).          *)
(*  - an Error message is a sequence of segments: literal text segments    *)
(*    and, where the code splices stdout in, the stdout lexemes.           *)
(*  - command lines, finding paths and finding messages are strings.       *)
(***************************************************************************)
EXTENDS Integers, Sequences, FiniteSets, TLC

VARIABLES pc, call, events, result, heap

vars == <<pc, call, events, result, heap>>

(***************************************************************************)
(* Bounds of the model.                                                    *)
(***************************************************************************)
MaxDeps == 2
MaxAdvisories == 2
MaxStatus == 1
MaxIndex == 9

Hosts == {"h1", "h2"}

(***************************************************************************)
(* JavaScript values.                                                      *)
(***************************************************************************)
JV(kind, str, children) == [k |-> kind, s |-> str, c |-> children]

Undefined == JV("undefined", "", <<>>)
Null == JV("null", "", <<>>)
Bool(b) == JV("bool", IF b THEN "true" ELSE "false", <<>>)
\* A number is kept as its lexeme; the lexemes used are in the form String(n) prints.
Num(lexeme) == JV("num", lexeme, <<>>)
Str(s) == JV("str", s, <<>>)
Arr(elems) == JV("arr", "", elems)
Obj(entries) == JV("obj", "", entries)

Digit == <<"0", "1", "2", "3", "4", "5", "6", "7", "8", "9">>

RECURSIVE NatToStr(_)
NatToStr(n) ==
    IF n < 10 THEN Digit[n + 1]
    ELSE NatToStr(n \div 10) \o Digit[(n % 10) + 1]

\* The array index a property key denotes, or -1 when it is not a canonical
\* numeric string (indices up to MaxIndex are recognised).
ArrayIndex(key) ==
    IF \E n \in 0..MaxIndex : NatToStr(n) = key
    THEN CHOOSE n \in 0..MaxIndex : NatToStr(n) = key
    ELSE -1

HasKey(entries, key) == \E i \in 1..Len(entries) : entries[i][1] = key

\* Position at which a new own property is enumerated: integer-like keys in
\* ascending numeric order before every other key, other keys in creation
\* order.
InsertAt(entries, key) ==
    IF ArrayIndex(key) < 0 THEN Len(entries) + 1
    ELSE 1 + Cardinality({i \in 1..Len(entries) :
                            /\ ArrayIndex(entries[i][1]) >= 0
                            /\ ArrayIndex(entries[i][1]) < ArrayIndex(key)})

\* Defining a property on an object under construction: an existing key keeps
\* its place and takes the new value.
ObjSet(entries, key, val) ==
    IF HasKey(entries, key)
    THEN [i \in 1..Len(entries) |->
            IF entries[i][1] = key THEN <<key, val>> ELSE entries[i]]
    ELSE LET p == InsertAt(entries, key)
         IN  SubSeq(entries, 1, p - 1) \o <<(<<key, val>>)>>
                 \o SubSeq(entries, p, Len(entries))

\* Property read obj[key] on a decoded value: undefined unless an object owns it.
Get(v, key) ==
    IF v.k = "obj" /\ HasKey(v.c, key)
    THEN v.c[CHOOSE i \in 1..Len(v.c) : v.c[i][1] = key][2]
    ELSE Undefined

(***************************************************************************)
(* Lexemes and text segments.                                              *)
(***************************************************************************)
Tok(type, lexeme) == [t |-> type, v |-> lexeme]

LBrace == Tok("{", "{")
RBrace == Tok("}", "}")
LBracket == Tok("[", "[")
RBracket == Tok("]", "]")
Colon == Tok(":", ":")
Comma == Tok(",", ",")
TStr(s) == Tok("str", s)
TNum(s) == Tok("num", s)
TLit(s) == Tok("lit", s)
TWord(s) == Tok("word", s)
Text(s) == Tok("text", s)

(***************************************************************************)
(* JSON.parse over a lexeme sequence.                                      *)
(***************************************************************************)
POk(v, next) == [ok |-> TRUE, v |-> v, next |-> next, msg |-> ""]
PFail(msg) == [ok |-> FALSE, v |-> Undefined, next |-> 0, msg |-> msg]

Unexpected(toks, i) ==
    IF i > Len(toks) THEN PFail("Unexpected end of JSON input")
    ELSE PFail("Unexpected token " \o toks[i].v \o " in JSON at position "
                   \o NatToStr(i - 1))

Is(toks, i, type) == i <= Len(toks) /\ toks[i].t = type

RECURSIVE ParseValue(_, _), ParseMembers(_, _, _), ParseElements(_, _, _)

ParseValue(toks, i) ==
    IF i > Len(toks) THEN Unexpected(toks, i)
    ELSE LET tok == toks[i] IN
         CASE tok.t = "str" -> POk(Str(tok.v), i + 1)
           [] tok.t = "num" -> POk(Num(tok.v), i + 1)
           [] tok.t = "lit" ->
                IF tok.v = "null" THEN POk(Null, i + 1)
                ELSE POk(Bool(tok.v = "true"), i + 1)
           [] tok.t = "{" ->
                IF Is(toks, i + 1, "}") THEN POk(Obj(<<>>), i + 2)
                ELSE ParseMembers(toks, i + 1, <<>>)
           [] tok.t = "[" ->
                IF Is(toks, i + 1, "]") THEN POk(Arr(<<>>), i + 2)
                ELSE ParseElements(toks, i + 1, <<>>)
           [] OTHER -> Unexpected(toks, i)

ParseMembers(toks, i, acc) ==
    IF ~Is(toks, i, "str") THEN Unexpected(toks, i)
    ELSE IF ~Is(toks, i + 1, ":") THEN Unexpected(toks, i + 1)
    ELSE LET r == ParseValue(toks, i + 2) IN
         IF ~r.ok THEN r
         ELSE LET acc2 == ObjSet(acc, toks[i].v, r.v) IN
              IF Is(toks, r.next, ",") THEN ParseMembers(toks, r.next + 1, acc2)
              ELSE IF Is(toks, r.next, "}") THEN POk(Obj(acc2), r.next + 1)
              ELSE Unexpected(toks, r.next)

ParseElements(toks, i, acc) ==
    LET r == ParseValue(toks, i) IN
    IF ~r.ok THEN r
    ELSE LET acc2 == Append(acc, r.v) IN
         IF Is(toks, r.next, ",") THEN ParseElements(toks, r.next + 1, acc2)
         ELSE IF Is(toks, r.next, "]") THEN POk(Arr(acc2), r.next + 1)
         ELSE Unexpected(toks, r.next)

\* JSON.parse(stdout): the decoded value, or a SyntaxError with its message.
JSONParse(toks) ==
    LET r == ParseValue(toks, 1) IN
    IF r.ok /\ r.next <= Len(toks) THEN Unexpected(toks, r.next) ELSE r

(***************************************************************************)
(* Language semantics used by parseOutput.                                 *)
(***************************************************************************)
Err(name, message) == [name |-> name, message |-> message]
NoError == Err("", <<>>)
TypeError(msg) == Err("TypeError", <<Text(msg)>>)

Normal(val) == [ok |-> TRUE, val |-> val, err |-> NoError]
Abrupt(err) == [ok |-> FALSE, val |-> <<>>, err |-> err]

\* String(v), the conversion a template literal applies to an interpolated value.
RECURSIVE JSToString(_), JoinValues(_, _)
JSToString(v) ==
    CASE v.k \in {"str", "num", "bool"} -> v.s
      [] v.k = "null" -> "null"
      [] v.k = "undefined" -> "undefined"
      [] v.k = "arr" -> JoinValues(v.c, 1)
      [] OTHER -> "[object Object]"

JoinValues(elems, i) ==
    IF i > Len(elems) THEN ""
    ELSE (IF elems[i].k \in {"null", "undefined"} THEN "" ELSE JSToString(elems[i]))
         \o (IF i < Len(elems) THEN "," ELSE "")
         \o JoinValues(elems, i + 1)

\* The i-th character of a string value, as a one-character string value. Only
\* its kind is observable to parseOutput (it owns none of the keys read), so
\* the character itself is not reproduced.
CharOf(v, i) == Str("?")

\* Object.entries(v): own enumerable string-keyed properties, in property order.
ObjectEntries(v) ==
    CASE v.k \in {"null", "undefined"} ->
            Abrupt(TypeError("Cannot convert undefined or null to object"))
      [] v.k = "obj" -> Normal(v.c)
      [] v.k = "arr" -> Normal([i \in 1..Len(v.c) |-> <<NatToStr(i - 1), v.c[i]>>])
      [] v.k = "str" -> Normal([i \in 1..Len(v.s) |-> <<NatToStr(i - 1), CharOf(v, i)>>])
      [] OTHER -> Normal(<<>>)

\* The values the for...of loop over advisories.advisories visits, or the
\* TypeError for a non-iterable.
Iterate(v) ==
    CASE v.k = "arr" -> Normal(v.c)
      [] v.k = "str" -> Normal([i \in 1..Len(v.s) |-> CharOf(v, i)])
      [] OTHER -> Abrupt(TypeError("advisories.advisories is not iterable"))

(***************************************************************************)
(* PHPSecurityChecker.                                                     *)
(***************************************************************************)
Name == "security-checker"

\* initLintResult(): a new result with empty buckets and no success flag yet.
InitLintResult ==
    [isSuccess |-> Undefined, warning |-> <<>>, error |-> <<>>, notice |-> <<>>]

\* Faulty variant: success read off the findings instead of the exit status.
IsSuccessWhenClean(output) ==
    Bool(JSONParse(output.stdout).ok /\ JSONParse(output.stdout).v.c = <<>>)

IsSuccess(output) == Bool(output.status = 0)

\* Faulty variant: the message drops the raw stdout.
OutputParseErrorNoPayload(output, errMessage) ==
    Err("Error",
        <<Text("Error parsing "), Text(Name), Text(" JSON output: "),
          Text(errMessage)>>)

\* The error thrown when JSON.parse fails (err is the SyntaxError's message).
OutputParseError(output, errMessage) ==
    Err("Error",
        <<Text("Error parsing "), Text(Name), Text(" JSON output: "),
          Text(errMessage), Text(". Output: \"")>>
            \o output.stdout \o <<Text("\"")>>)

\* Faulty variant: the path loses its trailing space.
EntryNoTrailingSpace(dependency, advisories, advisor) ==
    [path |-> dependency \o " version: " \o JSToString(Get(advisories, "version")),
     firstLine |-> Get(advisor, "cve"),
     lastLine |-> Get(advisor, "cve"),
     message |-> JSToString(Get(advisor, "title")) \o " ("
                     \o JSToString(Get(advisor, "link")) \o ")"]

\* const { cve, link, title } = advisor; const entry = {...}
Entry(dependency, advisories, advisor) ==
    [path |-> dependency \o " version: "
                  \o JSToString(Get(advisories, "version")) \o " ",
     firstLine |-> Get(advisor, "cve"),
     lastLine |-> Get(advisor, "cve"),
     message |-> JSToString(Get(advisor, "title")) \o " ("
                     \o JSToString(Get(advisor, "link")) \o ")"]

\* Faulty variant: an entry already reported is not reported again.
PushUnique(errors, entry) ==
    IF \E p \in 1..Len(errors) : errors[p] = entry THEN errors
    ELSE Append(errors, entry)

\* lintResult.error.push(entry)
Push(errors, entry) == Append(errors, entry)

\* for (const advisor of advisories.advisories) { ... }, from the j-th item on.
RECURSIVE ForAdvisors(_, _, _, _, _)
ForAdvisors(dependency, advisories, items, j, errors) ==
    IF j > Len(items) THEN Normal(errors)
    ELSE IF items[j].k \in {"null", "undefined"}
    THEN Abrupt(TypeError("Cannot destructure property 'cve' of 'advisor' as it is "
                              \o JSToString(items[j]) \o "."))
    ELSE ForAdvisors(dependency, advisories, items, j + 1,
                     Push(errors, Entry(dependency, advisories, items[j])))

\* for (const [dependency, advisories] of Object.entries(outputJson)) { ... },
\* from the i-th entry on.
RECURSIVE ForDependencies(_, _, _)
ForDependencies(entries, i, errors) ==
    IF i > Len(entries) THEN Normal(errors)
    ELSE LET dependency == entries[i][1]
             advisories == entries[i][2]
         IN  IF advisories.k \in {"null", "undefined"}
             THEN Abrupt(TypeError("Cannot read properties of "
                                       \o JSToString(advisories)
                                       \o " (reading 'advisories')"))
             ELSE LET items == Iterate(Get(advisories, "advisories")) IN
                  IF ~items.ok THEN items
                  ELSE LET r == ForAdvisors(dependency, advisories,
                                            items.val, 1, errors)
                       IN  IF ~r.ok THEN r
                           ELSE ForDependencies(entries, i + 1, r.val)

\* The body of parseOutput on the result object lintResult: the object as it is
\* returned, or the error thrown.
ParseOutputBody(dir, output, lintResult) ==
    LET flagged == [lintResult EXCEPT !.isSuccess = IsSuccess(output)]
        outputJson == JSONParse(output.stdout)
    IN  IF ~outputJson.ok
        THEN Abrupt(OutputParseError(output, outputJson.msg))
        ELSE LET entries == ObjectEntries(outputJson.v) IN
             IF ~entries.ok THEN entries
             ELSE LET r == ForDependencies(entries.val, 1, flagged.error) IN
                  IF ~r.ok THEN r
                  ELSE Normal([flagged EXCEPT !.error = r.val])

(***************************************************************************)
(* Collaborators: the process runner, the prerequisite probe, the warning  *)
(* log. Each interaction of a call is recorded in the call's event list.   *)
(***************************************************************************)
RawOutput(status, stdout, stderr) ==
    [status |-> status, stdout |-> stdout, stderr |-> stderr]
NoOutput == RawOutput(-1, <<>>, "")

Options(dir, ignoreErrors) == [dir |-> dir, ignoreErrors |-> ignoreErrors]

\* run(cmd, options) when the subprocess behaves as proc: its output as data,
\* or the execution failure raised for a non-zero exit unless ignoreErrors.
Run(cmd, options, proc) ==
    IF proc.status = 0 \/ options.ignoreErrors
    THEN Normal(proc)
    ELSE Abrupt(Err("Error", <<Text("Command failed: "), Text(cmd)>>))

Event(ev, text, options, proc, answer) ==
    [ev |-> ev, text |-> text, options |-> options, proc |-> proc,
     answer |-> answer]

\* commandExists(binary) and its answer ("pending" while awaited).
ExistsEvent(binary, answer) ==
    Event("commandExists", binary, Options("", FALSE), NoOutput, answer)

\* run(cmd, options) and whether it returned or raised.
RunEvent(cmd, options, proc) ==
    Event("run", cmd, options, proc,
          IF Run(cmd, options, proc).ok THEN "returned" ELSE "raised")

\* core.warning(message)
WarningEvent(message) ==
    Event("warning", message, Options("", FALSE), NoOutput, "")

(***************************************************************************)
(* verifySetup and lint.                                                   *)
(***************************************************************************)
Outcome(kind, evs, out, err) ==
    [kind |-> kind, events |-> evs, out |-> out, err |-> err]

VersionCommand(prefix) == prefix \o " security-checker --version"

\* Faulty variant: a missing prerequisite does not stop the version check.
VerifySetupNoShortCircuit(dir, prefix, found, proc) ==
    LET probe == ExistsEvent("php", IF found THEN "true" ELSE "false")
        cmd == VersionCommand(prefix)
        options == Options(dir, FALSE)
        evs == <<probe, RunEvent(cmd, options, proc)>>
    IN  IF Run(cmd, options, proc).ok
        THEN Outcome("return", evs, NoOutput, NoError)
        ELSE Outcome("throw", evs, NoOutput,
                     Err("Error", <<Text(Name), Text(" is not installed")>>))

\* Faulty variant: the failure of the version check is passed on as it is.
VerifySetupRethrow(dir, prefix, found, proc) ==
    LET probe == ExistsEvent("php", IF found THEN "true" ELSE "false") IN
    IF ~found
    THEN Outcome("throw", <<probe>>, NoOutput,
                 Err("Error", <<Text("PHP is not installed")>>))
    ELSE LET cmd == VersionCommand(prefix)
             options == Options(dir, FALSE)
             evs == <<probe, RunEvent(cmd, options, proc)>>
             r == Run(cmd, options, proc)
         IN  IF r.ok THEN Outcome("return", evs, NoOutput, NoError)
             ELSE Outcome("throw", evs, NoOutput, r.err)

\* verifySetup from the point where the awaited commandExists("php") has
\* answered found; proc is what the version subprocess does if it is run.
VerifySetupBody(dir, prefix, found, proc) ==
    LET probe == ExistsEvent("php", IF found THEN "true" ELSE "false") IN
    IF ~found
    THEN Outcome("throw", <<probe>>, NoOutput,
                 Err("Error", <<Text("PHP is not installed")>>))
    ELSE LET cmd == VersionCommand(prefix)
             options == Options(dir, FALSE)
             evs == <<probe, RunEvent(cmd, options, proc)>>
         IN  IF Run(cmd, options, proc).ok
             THEN Outcome("return", evs, NoOutput, NoError)
             ELSE Outcome("throw", evs, NoOutput,
                          Err("Error", <<Text(Name), Text(" is not installed")>>))

RECURSIVE Join(_, _)
Join(strs, sep) ==
    IF Len(strs) = 0 THEN ""
    ELSE IF Len(strs) = 1 THEN strs[1]
    ELSE strs[1] \o sep \o Join(Tail(strs), sep)

LintCommand(prefix, args) ==
    prefix \o " security-checker security:check composer.lock " \o args
        \o " --no-dev --format=json"

\* Faulty variant: the runner is left to raise on a non-zero exit.
LintOptionsRaising(dir) == Options(dir, FALSE)

LintOptions(dir) == Options(dir, TRUE)

LintWarnings(extensions, fix) ==
    IF fix
    THEN <<WarningEvent(Name \o " does not support auto-fixing "
                            \o Join(extensions, ","))>>
    ELSE <<>>

\* Emit the warnings, run cmd once with options, return what run returns.
LintWith(warnings, cmd, options, proc) ==
    LET evs == warnings \o <<RunEvent(cmd, options, proc)>>
        r == Run(cmd, options, proc)
    IN  IF r.ok THEN Outcome("return", evs, r.val, NoError)
        ELSE Outcome("throw", evs, NoOutput, r.err)

\* Faulty variant: a requested fix is passed on to the tool.
LintBodyFixFlag(dir, extensions, args, fix, prefix, proc) ==
    LintWith(LintWarnings(extensions, fix),
             LintCommand(prefix, args) \o (IF fix THEN " --fix" ELSE ""),
             LintOptions(dir), proc)

\* lint; proc is what the tool subprocess does.
LintBody(dir, extensions, args, fix, prefix, proc) ==
    LintWith(LintWarnings(extensions, fix), LintCommand(prefix, args),
             LintOptions(dir), proc)

(***************************************************************************)
(* Inputs: what hosts pass in and what the subprocesses print.             *)
(***************************************************************************)
Statuses == 0..MaxStatus
Dirs == {".", "app"}
Prefixes == {"", "docker run php"}
ArgStrings == {"", "--quiet"}
ExtensionLists == {<<"php">>, <<"php", "inc">>}

Advisory(cve, link, title) == [cve |-> cve, link |-> link, title |-> title]
AdvisoryPool ==
    {Advisory("CVE-2016-5385", "https://x", "Proxy header vuln"),
     Advisory("CVE-2022-31090", "https://y", "Header leak")}
DepNames == {"guzzlehttp/guzzle", "7"}
Version == "6.2.0"

RECURSIVE SeqsOfLen(_, _)
SeqsOfLen(S, n) ==
    IF n = 0 THEN {<<>>}
    ELSE {Append(q, x) : q \in SeqsOfLen(S, n - 1), x \in S}

SeqsUpTo(S, n) == UNION {SeqsOfLen(S, m) : m \in 0..n}

\* Sequences of n dependencies [name, advisories] with at most budget
\* advisories in all.
RECURSIVE DepSeqs(_, _)
DepSeqs(n, budget) ==
    IF n = 0 THEN {<<>>}
    ELSE UNION {{<<[name |-> name, advisories |-> advs]>> \o rest :
                    rest \in DepSeqs(n - 1, budget - Len(advs))} :
                name \in DepNames, advs \in SeqsUpTo(AdvisoryPool, budget)}

\* The lexemes of items separated by commas.
RECURSIVE Separated(_)
Separated(items) ==
    IF Len(items) = 0 THEN <<>>
    ELSE IF Len(items) = 1 THEN items[1]
    ELSE items[1] \o <<Comma>> \o Separated(Tail(items))

Member(key, valueToks) == <<TStr(key), Colon>> \o valueToks

RenderAdvisory(a) ==
    <<LBrace>> \o Separated(<<Member("title", <<TStr(a.title)>>),
                              Member("link", <<TStr(a.link)>>),
                              Member("cve", <<TStr(a.cve)>>)>>) \o <<RBrace>>

RenderDep(d) ==
    Member(d.name,
           <<LBrace>>
               \o Separated(<<Member("version", <<TStr(Version)>>),
                              Member("advisories",
                                     <<LBracket>>
                                         \o Separated([j \in 1..Len(d.advisories) |->
                                                RenderAdvisory(d.advisories[j])])
                                         \o <<RBracket>>)>>)
               \o <<RBrace>>)

RenderDoc(deps) ==
    <<LBrace>> \o Separated([i \in 1..Len(deps) |-> RenderDep(deps[i])])
        \o <<RBrace>>

\* Outputs in the tool's wire format: up to MaxDeps dependencies, up to
\* MaxAdvisories advisories in all (names may repeat, advisories may repeat).
WireDocs ==
    {RenderDoc(deps) : deps \in UNION {DepSeqs(n, MaxAdvisories) : n \in 0..MaxDeps}}

\* JSON.stringify of a decoded value, as lexemes.
RECURSIVE Stringify(_)
Stringify(v) ==
    CASE v.k = "str" -> <<TStr(v.s)>>
      [] v.k = "num" -> <<TNum(v.s)>>
      [] v.k = "bool" -> <<TLit(v.s)>>
      [] v.k = "arr" ->
            <<LBracket>> \o Separated([i \in 1..Len(v.c) |-> Stringify(v.c[i])])
                \o <<RBracket>>
      [] v.k = "obj" ->
            <<LBrace>> \o Separated([i \in 1..Len(v.c) |->
                                        Member(v.c[i][1], Stringify(v.c[i][2]))])
                \o <<RBrace>>
      [] OTHER -> <<TLit("null")>>

GoodAdvisory ==
    Obj(<<(<<"title", Str("Proxy header vuln")>>), (<<"link", Str("https://x")>>),
          (<<"cve", Str("CVE-2016-5385")>>)>>)
DepValue(version, advisories) ==
    Obj(<<(<<"version", version>>), (<<"advisories", advisories>>)>>)
GoodDep == DepValue(Str(Version), Arr(<<GoodAdvisory>>))

\* Values a dependency may map to that are not the wire format's record.
OddDepValues ==
    {Null, Str("6.2.0"), Str(""), Num("3"), Bool(TRUE), Arr(<<>>), Arr(<<GoodAdvisory>>),
     Obj(<<>>), Obj(<<(<<"version", Str(Version)>>)>>),
     DepValue(Str(Version), Null), DepValue(Str(Version), Str("xy")),
     DepValue(Str(Version), Str("")), DepValue(Str(Version), Num("1")),
     DepValue(Str(Version), GoodAdvisory),
     DepValue(Str(Version), Arr(<<Null>>)),
     DepValue(Str(Version), Arr(<<GoodAdvisory, Null>>)),
     DepValue(Str(Version), Arr(<<Num("1")>>)),
     DepValue(Str(Version), Arr(<<Str("CVE-2016-5385")>>)),
     DepValue(Str(Version), Arr(<<Obj(<<(<<"title", Str("No id")>>)>>)>>)),
     DepValue(Num("6"), Arr(<<GoodAdvisory>>)),
     Obj(<<(<<"advisories", Arr(<<GoodAdvisory>>)>>)>>)}

\* Decodable outputs that deviate from the wire format.
DeviatingDocs ==
    {Stringify(Obj(<<(<<"guzzlehttp/guzzle", d>>)>>)) : d \in OddDepValues}
    \cup {Stringify(Obj(<<(<<"guzzlehttp/guzzle", GoodDep>>),
                          (<<"symfony/http-kernel", d>>)>>)) : d \in OddDepValues}
    \cup {Stringify(v) : v \in {Null, Num("5"), Bool(FALSE), Str(""), Str("ab"),
                                Arr(<<>>), Arr(<<GoodDep>>), Arr(<<Null>>)}}

NotJson == <<TWord("not"), TWord("json")>>

Prefixes1(toks) == {SubSeq(toks, 1, n) : n \in 0..(Len(toks) - 1)}

SampleDoc == Stringify(Obj(<<(<<"guzzlehttp/guzzle", GoodDep>>)>>))

\* Outputs JSON.parse rejects: truncated documents, stray lexemes, text.
MalformedDocs ==
    Prefixes1(SampleDoc)
    \cup {NotJson,
          <<TWord("PHP"), TWord("Fatal"), TWord("error")>>,
          SampleDoc \o <<RBrace>>,
          SampleDoc \o SampleDoc,
          <<LBrace, TStr("a"), Colon, TNum("1"), Comma, RBrace>>,
          <<LBracket, TNum("1"), Comma, RBracket>>,
          <<LBrace, TNum("1"), Colon, TNum("1"), RBrace>>,
          <<LBrace, TStr("a"), TNum("1"), RBrace>>,
          <<Colon>>, <<Comma>>, <<RBracket>>}

\* Larger outputs in the wire format: two dependencies with three or four
\* advisories between them, and three dependencies.
LargerDocs ==
    LET a == CHOOSE x \in AdvisoryPool : x.cve = "CVE-2016-5385"
        b == CHOOSE x \in AdvisoryPool : x.cve # "CVE-2016-5385"
        dep(name, advs) == [name |-> name, advisories |-> advs]
    IN  {RenderDoc(<<dep("guzzlehttp/guzzle", <<a, b>>), dep("7", <<b, a>>)>>),
         RenderDoc(<<dep("guzzlehttp/guzzle", <<a, a>>), dep("symfony/http-kernel", <<b>>)>>),
         RenderDoc(<<dep("7", <<a, b>>), dep("guzzlehttp/guzzle", <<b>>), dep("3", <<a, a>>)>>)}

Stdouts == WireDocs \cup LargerDocs \cup DeviatingDocs \cup MalformedDocs

\* Every RawOutput parseOutput is tried on.
RawOutputs ==
    {RawOutput(st, out, "") : st \in Statuses, out \in Stdouts}

EmptyDoc == RenderDoc(<<>>)

\* The outputs hosts exchange when they run side by side.
SampleOutputs ==
    {RawOutput(st, out, err) :
        st \in Statuses,
        out \in {EmptyDoc, SampleDoc, NotJson,
                 Stringify(Obj(<<(<<"guzzlehttp/guzzle", Obj(<<>>)>>)>>))},
        err \in {""}}
    \cup {RawOutput(0, SampleDoc, "PHP Deprecated")}

\* What the tool subprocess may do when lint runs it.
ToolRuns ==
    {RawOutput(st, EmptyDoc, "") : st \in Statuses}
    \cup {RawOutput(st, SampleDoc, "PHP Deprecated") : st \in Statuses}

\* What the version subprocess may do when verifySetup runs it.
VersionRuns ==
    {RawOutput(st, <<TWord("security-checker"), TNum("2.0")>>, "") : st \in Statuses}

(***************************************************************************)
(* The hosts and the calls they make.                                      *)
(*   pc[h]      "idle", "verifySetup" (awaiting the probe), "returned" or  *)
(*              "thrown" (the call completed and the host holds its        *)
(*              outcome)                                                   *)
(*   call[h]    the operation and arguments of h's current call            *)
(*   events[h]  the collaborator interactions of h's current call          *)
(*   result[h]  what the call returned (ref: a result object on the heap,  *)
(*              out: a RawOutput) or threw (err)                           *)
(*   heap       the result objects live in the process                     *)
(***************************************************************************)
Addrs == 1..Cardinality(Hosts)

Call(op, dir, prefix, extensions, args, fix, output) ==
    [op |-> op, dir |-> dir, prefix |-> prefix, extensions |-> extensions,
     args |-> args, fix |-> fix, output |-> output]
NoCall == Call("", "", "", <<>>, "", FALSE, NoOutput)

Result(ref, out, err) == [ref |-> ref, out |-> out, err |-> err]
NoResult == Result(0, NoOutput, NoError)

Cell(live, obj) == [live |-> live, obj |-> obj]
FreeCell == Cell(FALSE, InitLintResult)

Init ==
    /\ pc = [h \in Hosts |-> "idle"]
    /\ call = [h \in Hosts |-> NoCall]
    /\ events = [h \in Hosts |-> <<>>]
    /\ result = [h \in Hosts |-> NoResult]
    /\ heap = [a \in Addrs |-> FreeCell]

\* The address a newly created object gets.
NewAddr == CHOOSE a \in Addrs : ~heap[a].live /\ \A b \in 1..(a - 1) : heap[b].live

\* verifySetup up to its await of commandExists("php").
VerifySetupCall(h, dir, prefix) ==
    /\ pc[h] = "idle"
    /\ pc' = [pc EXCEPT ![h] = "verifySetup"]
    /\ call' = [call EXCEPT ![h] = Call("verifySetup", dir, prefix, <<>>, "", FALSE, NoOutput)]
    /\ events' = [events EXCEPT ![h] = <<ExistsEvent("php", "pending")>>]
    /\ UNCHANGED <<result, heap>>

\* verifySetup from the probe's answer to its end.
VerifySetupResume(h, found, proc) ==
    /\ pc[h] = "verifySetup"
    /\ LET o == VerifySetupBody(call[h].dir, call[h].prefix, found, proc) IN
       /\ pc' = [pc EXCEPT ![h] = IF o.kind = "return" THEN "returned" ELSE "thrown"]
       /\ events' = [events EXCEPT ![h] = o.events]
       /\ result' = [result EXCEPT ![h] = Result(0, o.out, o.err)]
    /\ UNCHANGED <<call, heap>>

Lint(h, dir, extensions, args, fix, prefix, proc) ==
    /\ pc[h] = "idle"
    /\ LET o == LintBody(dir, extensions, args, fix, prefix, proc) IN
       /\ pc' = [pc EXCEPT ![h] = IF o.kind = "return" THEN "returned" ELSE "thrown"]
       /\ events' = [events EXCEPT ![h] = o.events]
       /\ result' = [result EXCEPT ![h] = Result(0, o.out, o.err)]
    /\ call' = [call EXCEPT ![h] = Call("lint", dir, prefix, extensions, args, fix, NoOutput)]
    /\ UNCHANGED heap

\* parseOutput working on the object at address a, which holds lintResult when
\* the loop starts.
ParseOutputAt(h, dir, output, a, lintResult) ==
    /\ pc[h] = "idle"
    /\ call' = [call EXCEPT ![h] = Call("parseOutput", dir, "", <<>>, "", FALSE, output)]
    /\ events' = [events EXCEPT ![h] = <<>>]
    /\ LET r == ParseOutputBody(dir, output, lintResult) IN
       IF r.ok
       THEN /\ pc' = [pc EXCEPT ![h] = "returned"]
            /\ heap' = [heap EXCEPT ![a] = Cell(TRUE, r.val)]
            /\ result' = [result EXCEPT ![h] = Result(a, NoOutput, NoError)]
       ELSE /\ pc' = [pc EXCEPT ![h] = "thrown"]
            /\ result' = [result EXCEPT ![h] = Result(0, NoOutput, r.err)]
            /\ UNCHANGED heap

\* Faulty variant: one result object, created once, serves every call.
ParseOutputShared(h, dir, output) ==
    ParseOutputAt(h, dir, output, 1,
                  IF heap[1].live THEN heap[1].obj ELSE InitLintResult)

\* parseOutput: a new result object from initLintResult(), filled and returned.
ParseOutput(h, dir, output) ==
    ParseOutputAt(h, dir, output, NewAddr, InitLintResult)

\* The host takes the outcome of its call and drops it.
Consume(h) ==
    /\ pc[h] \in {"returned", "thrown"}
    /\ pc' = [pc EXCEPT ![h] = "idle"]
    /\ call' = [call EXCEPT ![h] = NoCall]
    /\ events' = [events EXCEPT ![h] = <<>>]
    /\ result' = [result EXCEPT ![h] = NoResult]
    /\ heap' = [a \in Addrs |->
                  IF a = result[h].ref /\ \A g \in Hosts \ {h} : result[g].ref # a
                  THEN FreeCell ELSE heap[a]]

Next ==
    \E h \in Hosts :
        \/ \E dir \in Dirs, prefix \in Prefixes : VerifySetupCall(h, dir, prefix)
        \/ \E found \in BOOLEAN, proc \in VersionRuns : VerifySetupResume(h, found, proc)
        \/ \E dir \in Dirs, extensions \in ExtensionLists, args \in ArgStrings,
              fix \in BOOLEAN, prefix \in Prefixes, proc \in ToolRuns :
                Lint(h, dir, extensions, args, fix, prefix, proc)
        \/ \E dir \in Dirs, output \in SampleOutputs : ParseOutput(h, dir, output)
        \/ Consume(h)

\* Hosts running side by side, each making one call at a time.
Spec == Init /\ [][Next]_vars

\* One host applying parseOutput to every RawOutput of the input set.
NextParse ==
    \/ \E dir \in Dirs, output \in RawOutputs : ParseOutput("h1", dir, output)
    \/ Consume("h1")

SpecParse == Init /\ [][NextParse]_vars

(***************************************************************************)
(* Vocabulary of the properties.                                           *)
(***************************************************************************)
Done(h, op) == pc[h] \in {"returned", "thrown"} /\ call[h].op = op
Returned(h, op) == pc[h] = "returned" /\ call[h].op = op
Thrown(h, op) == pc[h] = "thrown" /\ call[h].op = op

\* The result object a returned parseOutput call handed to host h.
ResultOf(h) == heap[result[h].ref].obj

Decodes(output) == JSONParse(output.stdout).ok
Decoded(output) == JSONParse(output.stdout).v

IsStr(v) == v.k = "str"

\* The tool wire format: an object keyed by dependency name, each value an
\* object with a version string and an advisories array of objects that each
\* carry cve, link and title strings.
WireAdvisory(a) ==
    a.k = "obj" /\ IsStr(Get(a, "cve")) /\ IsStr(Get(a, "link")) /\ IsStr(Get(a, "title"))
WireDep(d) ==
    /\ d.k = "obj"
    /\ IsStr(Get(d, "version"))
    /\ Get(d, "advisories").k = "arr"
    /\ \A j \in 1..Len(Get(d, "advisories").c) : WireAdvisory(Get(d, "advisories").c[j])
WireFormat(v) ==
    v.k = "obj" /\ \A i \in 1..Len(v.c) : WireDep(v.c[i][2])

\* toks occurs in message as a contiguous run of segments.
Carries(message, toks) ==
    \E i \in 1..(Len(message) - Len(toks) + 1) :
        SubSeq(message, i, i + Len(toks) - 1) = toks

\* The OutputParseError of this adapter, carrying the payload stdout.
IsOutputParseError(err, stdout) ==
    /\ err.name = "Error"
    /\ Len(err.message) >= 3
    /\ SubSeq(err.message, 1, 3)
          = <<Text("Error parsing "), Text("security-checker"), Text(" JSON output: ")>>
    /\ Carries(err.message, <<Text(". Output: \"")>> \o stdout \o <<Text("\"")>>)

PrerequisiteMissing == Err("Error", <<Text("PHP is not installed")>>)
ToolNotInstalled == Err("Error", <<Text("security-checker"), Text(" is not installed")>>)

RunEvents(h) == SelectSeq(events[h], LAMBDA e : e.ev = "run")
WarningEvents(h) == SelectSeq(events[h], LAMBDA e : e.ev = "warning")

\* Number of advisories of the dependencies before the i-th.
RECURSIVE Before(_, _)
Before(deps, i) ==
    IF i <= 1 THEN 0
    ELSE Before(deps, i - 1) + Len(Get(deps[i - 1][2], "advisories").c)

(***************************************************************************)
(* Properties of parseOutput, checked under SpecParse.                     *)
(***************************************************************************)

\* C1: whenever parseOutput returns a result (its stdout decoded), the result's
\* isSuccess is true exactly when the RawOutput status is 0, whatever the
\* number of findings.
C1_IsSuccessIffStatusZero ==
    \A h \in Hosts :
        Returned(h, "parseOutput") =>
            /\ Decodes(call[h].output)
            /\ ResultOf(h).isSuccess \in {Bool(TRUE), Bool(FALSE)}
            /\ (ResultOf(h).isSuccess = Bool(TRUE)) <=> (call[h].output.status = 0)

\* C1 witness: status 0 with findings reported, and isSuccess true.
C1_Witness ==
    /\ Returned("h1", "parseOutput")
    /\ call["h1"].output.status = 0
    /\ Len(ResultOf("h1").error) >= 2
    /\ ResultOf("h1").isSuccess = Bool(TRUE)

\* C2: for an output in the wire format, parseOutput returns, and the error
\* bucket holds one finding per (dependency, advisory) pair, dependency by
\* dependency in decode order and advisory by advisory within each, nothing
\* merged or reordered; the warning and notice buckets are empty.
C2_ErrorBucketInDecodeOrder ==
    \A h \in Hosts :
        (Done(h, "parseOutput") /\ Decodes(call[h].output)
            /\ WireFormat(Decoded(call[h].output))) =>
            /\ Returned(h, "parseOutput")
            /\ LET deps == Decoded(call[h].output).c
                   advs(i) == Get(deps[i][2], "advisories").c
                   r == ResultOf(h)
               IN  /\ Len(r.error) = Before(deps, Len(deps) + 1)
                   /\ \A i \in 1..Len(deps) : \A j \in 1..Len(advs(i)) :
                         LET e == r.error[Before(deps, i) + j] IN
                         /\ e.path = deps[i][1] \o " version: "
                                         \o Get(deps[i][2], "version").s \o " "
                         /\ e.firstLine = Get(advs(i)[j], "cve")
                         /\ e.message = Get(advs(i)[j], "title").s \o " ("
                                            \o Get(advs(i)[j], "link").s \o ")"
                   /\ r.warning = <<>>
                   /\ r.notice = <<>>

\* C2 witness: two dependencies, the first with two advisories that are the
\* same advisory, all three findings reported.
C2_Witness ==
    /\ Returned("h1", "parseOutput")
    /\ WireFormat(Decoded(call["h1"].output))
    /\ Len(Decoded(call["h1"].output).c) = 2
    /\ Len(ResultOf("h1").error) >= 3
    /\ ResultOf("h1").error[1] = ResultOf("h1").error[2]
    /\ ResultOf("h1").error[3] # ResultOf("h1").error[1]

\* C3: for every dependency d whose version is the string v and every advisory
\* under it with string fields cve, link and title, the returned result holds
\* the finding with path "<d> version: <v> ", firstLine = lastLine = cve and
\* message "<title> (<link>)".
C3_FindingFields ==
    \A h \in Hosts :
        Returned(h, "parseOutput") =>
            LET json == Decoded(call[h].output)
                deps == IF json.k = "obj" THEN json.c ELSE <<>>
            IN  \A i \in 1..Len(deps) :
                    LET d == deps[i][2]
                        list == Get(d, "advisories")
                    IN  (IsStr(Get(d, "version")) /\ list.k = "arr") =>
                            \A j \in 1..Len(list.c) :
                                WireAdvisory(list.c[j]) =>
                                    \E p \in 1..Len(ResultOf(h).error) :
                                        ResultOf(h).error[p] =
                                            [path |-> deps[i][1] \o " version: "
                                                          \o Get(d, "version").s \o " ",
                                             firstLine |-> Str(Get(list.c[j], "cve").s),
                                             lastLine |-> Str(Get(list.c[j], "cve").s),
                                             message |-> Get(list.c[j], "title").s \o " ("
                                                             \o Get(list.c[j], "link").s
                                                             \o ")"]

\* C3 witness: the guzzle advisory is reported with exactly these fields.
C3_Witness ==
    /\ Returned("h1", "parseOutput")
    /\ ResultOf("h1").error =
          <<[path |-> "guzzlehttp/guzzle version: 6.2.0 ",
             firstLine |-> Str("CVE-2016-5385"),
             lastLine |-> Str("CVE-2016-5385"),
             message |-> "Proxy header vuln (https://x)"]>>

\* C4: whenever stdout does not decode as JSON, parseOutput throws the
\* OutputParseError and returns nothing, for every exit status; the message
\* carries the decoder's message and the raw stdout verbatim.
C4_UndecodableThrowsWithPayload ==
    \A h \in Hosts :
        (Done(h, "parseOutput") /\ ~Decodes(call[h].output)) =>
            /\ Thrown(h, "parseOutput")
            /\ result[h].ref = 0
            /\ IsOutputParseError(result[h].err, call[h].output.stdout)
            /\ Carries(result[h].err.message,
                       <<Text(JSONParse(call[h].output.stdout).msg)>>)

\* C4 witness: exit status 0, stdout the text "not json", the error carrying it.
C4_Witness ==
    /\ Thrown("h1", "parseOutput")
    /\ call["h1"].output.status = 0
    /\ call["h1"].output.stdout = <<TWord("not"), TWord("json")>>
    /\ Carries(result["h1"].err.message, <<TWord("not"), TWord("json")>>)
    /\ Carries(result["h1"].err.message,
               <<Text("Unexpected token not in JSON at position 0")>>)

\* C5: whenever the decoded stdout deviates from the wire format, parseOutput
\* throws the OutputParseError carrying the raw stdout: it returns no result
\* and throws no other error.
C5_DeviationThrowsOutputParseError ==
    \A h \in Hosts :
        (Done(h, "parseOutput") /\ Decodes(call[h].output)
            /\ ~WireFormat(Decoded(call[h].output))) =>
            /\ Thrown(h, "parseOutput")
            /\ IsOutputParseError(result[h].err, call[h].output.stdout)

(***************************************************************************)
(* Properties of verifySetup, lint and of calls side by side, checked      *)
(* under Spec.                                                             *)
(***************************************************************************)

\* C6: in a verifySetup call the probe comes first, and when it answers false
\* the call throws PrerequisiteMissing without ever running the version
\* invocation.
C6_ProbeFailureShortCircuits ==
    \A h \in Hosts :
        call[h].op = "verifySetup" =>
            /\ Len(events[h]) >= 1
            /\ events[h][1].ev = "commandExists"
            /\ events[h][1].text = "php"
            /\ (events[h][1].answer = "pending") => (Len(events[h]) = 1)
            /\ (events[h][1].answer = "false") =>
                  /\ Thrown(h, "verifySetup")
                  /\ result[h].err = PrerequisiteMissing
                  /\ RunEvents(h) = <<>>

\* C6 witness: a verifySetup call that ended on a failed probe.
C6_Witness ==
    /\ Thrown("h1", "verifySetup")
    /\ events["h1"][1].answer = "false"
    /\ result["h1"].err = PrerequisiteMissing

\* C7: when the probe answers true, verifySetup runs the version invocation
\* once; it throws ToolNotInstalled naming "security-checker" exactly when that
\* invocation raises, and otherwise completes with no failure and no value.
C7_ToolNotInstalledIffVersionRaises ==
    \A h \in Hosts :
        (Done(h, "verifySetup") /\ events[h][1].answer = "true") =>
            /\ Len(RunEvents(h)) = 1
            /\ RunEvents(h)[1].text = call[h].prefix \o " security-checker --version"
            /\ RunEvents(h)[1].options.dir = call[h].dir
            /\ Thrown(h, "verifySetup") <=> (RunEvents(h)[1].answer = "raised")
            /\ Thrown(h, "verifySetup") => (result[h].err = ToolNotInstalled)
            /\ Returned(h, "verifySetup") => (result[h] = NoResult)

\* C7 witness: the probe succeeded, the version invocation raised, and the
\* call threw ToolNotInstalled.
C7_Witness ==
    /\ Thrown("h1", "verifySetup")
    /\ events["h1"][1].answer = "true"
    /\ RunEvents("h1")[1].answer = "raised"
    /\ result["h1"].err = ToolNotInstalled

\* C8: lint builds the same command whether or not a fix is requested, and a
\* call with a fix requested emits exactly one warning, before the single
\* execution of the tool, and still returns.
C8_FixRequestOnlyWarns ==
    \A h \in Hosts :
        Done(h, "lint") =>
            /\ Len(RunEvents(h)) = 1
            /\ \A g \in Hosts :
                  (Done(g, "lint") /\ call[g].prefix = call[h].prefix
                      /\ call[g].args = call[h].args) =>
                      RunEvents(g)[1].text = RunEvents(h)[1].text
            /\ call[h].fix =>
                  /\ Len(events[h]) = 2
                  /\ events[h][1].ev = "warning"
                  /\ events[h][2].ev = "run"
                  /\ Returned(h, "lint")
            /\ ~call[h].fix => (WarningEvents(h) = <<>>)

\* C8 witness: two lint calls with the same prefix and arguments, one with a
\* fix requested and one without, both completed.
C8_Witness ==
    /\ Done("h1", "lint") /\ Done("h2", "lint")
    /\ call["h1"].fix /\ ~call["h2"].fix
    /\ call["h1"].prefix = call["h2"].prefix
    /\ call["h1"].args = call["h2"].args
    /\ events["h1"][1].text = "security-checker does not support auto-fixing php,inc"

\* C9: lint runs the tool exactly once, in the target directory and with
\* error raising suppressed; for every exit status it throws nothing and
\* returns the runner's RawOutput unchanged.
C9_LintReturnsRawOutput ==
    \A h \in Hosts :
        Done(h, "lint") =>
            /\ Len(RunEvents(h)) = 1
            /\ RunEvents(h)[1].options = [dir |-> call[h].dir, ignoreErrors |-> TRUE]
            /\ Returned(h, "lint")
            /\ result[h].err = NoError
            /\ result[h].out = RunEvents(h)[1].proc

\* C9 witness: the tool exited non-zero with output on both streams and lint
\* returned exactly that.
C9_Witness ==
    /\ Returned("h1", "lint")
    /\ result["h1"].out.status # 0
    /\ result["h1"].out.stderr # ""
    /\ result["h1"].out.stdout # <<>>
    /\ result["h1"].out = RunEvents("h1")[1].proc

\* A result a host holds is its own object, and equal inputs gave equal results.
ResultsIndependent ==
    \A h \in Hosts, g \in Hosts :
        (Returned(h, "parseOutput") /\ Returned(g, "parseOutput")) =>
            /\ (h # g) => (result[h].ref # result[g].ref)
            /\ (call[h].output = call[g].output) => (ResultOf(h) = ResultOf(g))

\* A result a host holds is not changed by any step another call takes.
ResultsStable ==
    \A h \in Hosts :
        (Returned(h, "parseOutput") /\ pc'[h] = "returned") =>
            /\ result'[h] = result[h]
            /\ heap'[result[h].ref] = heap[result[h].ref]

\* C10: no state is shared between calls: whatever verifySetup, lint and
\* parseOutput calls the hosts interleave, each parseOutput result is an object
\* of its own, two calls given equal rawOutput hold equal results, and no
\* later call changes a result already returned.
C10_NoSharedState == [](ResultsIndependent) /\ [][ResultsStable]_vars

\* C10 witness: both hosts hold results of parseOutput calls on the same
\* rawOutput, with findings, while those are distinct objects.
C10_Witness ==
    /\ Returned("h1", "parseOutput") /\ Returned("h2", "parseOutput")
    /\ call["h1"].output = call["h2"].output
    /\ call["h1"].dir # call["h2"].dir
    /\ result["h1"].ref # result["h2"].ref
    /\ Len(ResultOf("h1").error) = 1
    /\ ResultOf("h1") = ResultOf("h2")

====
